---- MODULE Spec2Model ----
(***************************************************************************)
(* The type-checking pass of decaf-rs (typeck/src/type_pass.rs).           *)
(*                                                                         *)
(* The pass is a depth-first traversal of the AST that threads one mutable *)
(* TypeCk value through every call.  Each function of the pass is an       *)
(* operator that takes the TypeCk value `s` and returns the pair           *)
(* [s |-> the TypeCk value afterwards, v |-> the function's result].       *)
(* A node's source location is its path in the tree (a sequence of child   *)
(* numbers), so that the order of the paths is the order of the source.    *)
(***************************************************************************)
EXTENDS Integers, Sequences, FiniteSets, TLC

VARIABLES
  p,            \* the program handed to TypePass::program
  pc,           \* position in program / class_def
  ci,           \* index of the class being checked (for c in &p.class)
  fi,           \* index of the field being checked (for f in &c.field)
  tc            \* the TypeCk value (see NewTypeCk)

vars == <<p, pc, ci, fi, tc>>

\* ------------------------------------------------------------------ bounds
\* longest statement list of a generated block
MaxStmts == 3
\* most arguments of a generated call
MaxArgs == 2

\* ------------------------------------------------------------------- types
mk(k) == [arr |-> 0, kind |-> k, ref |-> ""]
TyInt == mk("int")
TyBool == mk("bool")
TyString == mk("string")
TyVoid == mk("void")
TyNull == mk("null")
TyError == mk("error")
mk_obj(c) == [arr |-> 0, kind |-> "object", ref |-> c]
mk_class(c) == [arr |-> 0, kind |-> "class", ref |-> c]
mk_func(f) == [arr |-> 0, kind |-> "func", ref |-> f]
mk_arr(t) == [t EXCEPT !.arr = @ + 1]

is_arr(t) == t.arr > 0
is_func(t) == t.arr = 0 /\ t.kind = "func"
is_class(t) == t.arr = 0 /\ t.kind = "class"
is_object(t) == t.arr = 0 /\ t.kind = "object"

\* ---------------------------------------------------------------- the AST
\* expressions
IntLit == [kind |-> "IntLit"]
BoolLit == [kind |-> "BoolLit"]
StringLit == [kind |-> "StringLit"]
NullLit == [kind |-> "NullLit"]
ReadInt == [kind |-> "ReadInt"]
ReadLine == [kind |-> "ReadLine"]
This == [kind |-> "This"]
Var(n) == [kind |-> "VarSel", owner |-> <<>>, name |-> n]
Sel(o, n) == [kind |-> "VarSel", owner |-> <<o>>, name |-> n]
IndexSel(a, i) == [kind |-> "IndexSel", arr |-> a, idx |-> i]
Call(n, args) == [kind |-> "Call", owner |-> <<>>, name |-> n, arg |-> args]
CallOn(o, n, args) == [kind |-> "Call", owner |-> <<o>>, name |-> n, arg |-> args]
Unary(op, r) == [kind |-> "Unary", op |-> op, r |-> r]
Binary(op, l, r) == [kind |-> "Binary", op |-> op, l |-> l, r |-> r]
NewClass(n) == [kind |-> "NewClass", name |-> n]
NewArray(elem, len) == [kind |-> "NewArray", elem |-> elem, len |-> len]
ClassTest(e, n) == [kind |-> "ClassTest", expr |-> e, name |-> n]
ClassCast(e, n) == [kind |-> "ClassCast", expr |-> e, name |-> n]

\* statements; a block is [stmt |-> the sequence of its statements]
Block(ss) == [stmt |-> ss]
Assign(d, e) == [kind |-> "Assign", dst |-> d, src |-> e]
LocalVarDef(n, t, init) == [kind |-> "LocalVarDef", name |-> n, ty |-> t, init |-> init]
ExprEval(e) == [kind |-> "ExprEval", e |-> e]
Skip == [kind |-> "Skip"]
If(c, t, f) == [kind |-> "If", cond |-> c, on_true |-> t, on_false |-> f]
While(c, b) == [kind |-> "While", cond |-> c, body |-> b]
For(i, c, u, b) == [kind |-> "For", init |-> i, cond |-> c, update |-> u, body |-> b]
Return(r) == [kind |-> "Return", r |-> r]
PrintStmt(es) == [kind |-> "Print", p |-> es]
Break == [kind |-> "Break"]
BlockStmt(b) == [kind |-> "Block", b |-> b]

\* class members
VarDef(n, t) == [kind |-> "VarDef", name |-> n, ty |-> t]
Param(n, t) == [name |-> n, ty |-> t]
FuncDef(n, st, rt, ps, b) ==
  [kind |-> "FuncDef", name |-> n, static_ |-> st, ret |-> rt, param |-> ps, body |-> b]
ClassDef(n, par, fs) == [name |-> n, parent |-> par, field |-> fs]

ret_ty(f) == f.ret

\* --------------------------------------------------- locations (tree paths)
RECURSIVE loc_lt(_, _)
loc_lt(a, b) ==
  IF b = <<>> THEN FALSE
  ELSE IF a = <<>> THEN TRUE
  ELSE IF a[1] # b[1] THEN a[1] < b[1]
  ELSE loc_lt(Tail(a), Tail(b))
loc_ge(a, b) == ~loc_lt(a, b)

\* ------------------------------------------------- symbols and class tables
SymVar(n, t, l, cls) == [sym |-> "Var", name |-> n, ty |-> t, loc |-> l, owner_is_class |-> cls]
SymFunc(f) == [sym |-> "Func", name |-> f.name, f |-> f]
SymThis(c) == [sym |-> "This", name |-> "this", class |-> c]
SymClass(c) == [sym |-> "Class", name |-> c, class |-> c]

class_of(n) == p.class[CHOOSE i \in 1..Len(p.class) : p.class[i].name = n]

lookup_class(n) ==
  IF \E i \in 1..Len(p.class) : p.class[i].name = n THEN <<n>> ELSE <<>>

RECURSIVE extends(_, _)
extends(c, d) ==
  \/ c = d
  \/ class_of(c).parent # <<>> /\ extends(class_of(c).parent[1], d)

member_symbol(m) == IF m.kind = "FuncDef" THEN SymFunc(m) ELSE SymVar(m.name, m.ty, <<>>, TRUE)

\* ClassDef::lookup: the class's own members, then its parent's
RECURSIVE class_lookup(_, _)
class_lookup(c, n) ==
  LET cd == class_of(c)
      own == {i \in 1..Len(cd.field) : cd.field[i].name = n}
  IN IF own # {} THEN <<member_symbol(cd.field[CHOOSE i \in own : \A j \in own : i <= j])>>
     ELSE IF cd.parent # <<>> THEN class_lookup(cd.parent[1], n)
     ELSE <<>>

symbol_ty(sym) ==
  CASE sym.sym = "Var" -> sym.ty
    [] sym.sym = "Func" -> mk_func(sym.f.name)
    [] sym.sym = "This" -> mk_obj(sym.class)
    [] sym.sym = "Class" -> mk_class(sym.class)

\* Ty::assignable_to
assignable_to(src, dst) ==
  \/ src = dst
  \/ src = TyError
  \/ dst = TyError
  \/ is_object(src) /\ is_object(dst) /\ extends(src.ref, dst.ref)
  \/ src = TyNull /\ (is_object(dst) \/ is_arr(dst))

\* ------------------------------------------------------------- scope stack
GlobalScope == [kind |-> "Global"]
ClassScope(c) == [kind |-> "Class", class |-> c]
ParamScope(f, c) == [kind |-> "Param", f |-> f, class |-> c]
LocalScope(vs) == [kind |-> "Local", vars |-> vs]

\* the locals the symbol pass declared in a statement list whose statements sit at base \o <<i>>
RECURSIVE local_vars(_, _, _)
local_vars(ss, base, i) ==
  IF i > Len(ss) THEN <<>>
  ELSE (IF ss[i].kind = "LocalVarDef"
        THEN <<SymVar(ss[i].name, ss[i].ty, base \o <<i>>, FALSE)>> ELSE <<>>)
       \o local_vars(ss, base, i + 1)

scope_get(o, n) ==
  CASE o.kind = "Global" -> IF lookup_class(n) # <<>> THEN <<SymClass(n)>> ELSE <<>>
    [] o.kind = "Class" -> class_lookup(o.class, n)
    [] o.kind = "Param" ->
         LET ix == {i \in 1..Len(o.f.param) : o.f.param[i].name = n}
         IN IF ix # {} THEN LET i == CHOOSE i \in ix : TRUE
                            IN <<SymVar(n, o.f.param[i].ty, <<>>, FALSE)>>
            ELSE IF n = "this" /\ ~o.f.static_ THEN <<SymThis(o.class)>>
            ELSE <<>>
    [] o.kind = "Local" ->
         LET ix == {i \in 1..Len(o.vars) : o.vars[i].name = n}
         IN IF ix # {} THEN <<o.vars[CHOOSE i \in ix : TRUE]>> ELSE <<>>

\* ScopeStack::lookup_before: innermost scope first; a local declared at or
\* after `loc` is invisible
RECURSIVE lookup_from(_, _, _, _)
lookup_from(stack, k, n, loc) ==
  IF k = 0 THEN <<>>
  ELSE LET got == scope_get(stack[k], n)
       IN IF got # <<>> /\ ~(stack[k].kind = "Local" /\ loc_ge(got[1].loc, loc))
          THEN got
          ELSE lookup_from(stack, k - 1, n, loc)
lookup_before(s, n, loc) == lookup_from(s.scopes, Len(s.scopes), n, loc)

open(s, o) == [s EXCEPT !.scopes = Append(@, o)]
close(s) == [s EXCEPT !.scopes = SubSeq(@, 1, Len(@) - 1)]

\* ------------------------------------------------------------- diagnostics
R(s, v) == [s |-> s, v |-> v]

\* sequencing: the pass computes `a` before `b` (a statement before the next one)
then(a, b) == IF DOMAIN a = {} THEN b ELSE b

\* Errors::issue: records the diagnostic; where a value is expected the caller
\* gets the default one, which for a type is Error
issue(s, loc, kind, info) ==
  [s EXCEPT !.errors = Append(@, [loc |-> loc, kind |-> kind, info |-> info])]

\* the array-length selector
LENGTH == "length"

\* history of the pass: one entry per finished call of stmt or block, with
\* the loop-nesting depth at its entry and at its exit
note(s, fn, loc, cnt, ret) ==
  [s EXCEPT !.calls = Append(@, [fn |-> fn, loc |-> loc, loop_cnt |-> cnt,
                                 loop_after |-> s.loop_cnt, ret |-> ret])]

\* ------------------------------------------------------- expression checker
RECURSIVE expr(_, _, _)
RECURSIVE var_sel(_, _, _)
RECURSIVE call(_, _, _)
RECURSIVE check_call(_, _, _, _, _)
RECURSIVE check_args(_, _, _, _, _)
RECURSIVE binary(_, _, _)
RECURSIVE unary(_, _, _)

\* TypeCk::ty on the element type of a `new` array, one array level added
syn_ty(s, elem, loc) ==
  IF elem.kind \in {"object"} /\ lookup_class(elem.ref) = <<>>
  THEN R(issue(s, loc, "NoSuchClass", <<elem.ref>>), TyError)
  ELSE R(s, mk_arr(elem))

ArithOps == {"Add", "Sub", "Mul", "Div", "Mod"}
RelOps == {"Lt", "Le", "Gt", "Ge"}
EqOps == {"Eq", "Ne"}
LogicOps == {"And", "Or"}
BinOps == ArithOps \cup RelOps \cup EqOps \cup LogicOps
UnOps == {"Neg", "Not"}

\* binary without the test for an Error operand
binary_no_absorb(s, b, loc) ==
  LET le == expr(s, b.l, loc \o <<1>>)
      re == expr(le.s, b.r, loc \o <<2>>)
      l == le.v
      r == re.v
      ret == IF b.op \in ArithOps THEN TyInt ELSE TyBool
      ok == CASE b.op \in ArithOps -> l = TyInt /\ r = TyInt
              [] b.op \in RelOps -> l = TyInt /\ r = TyInt
              [] b.op \in EqOps -> assignable_to(l, r) \/ assignable_to(r, l)
              [] b.op \in LogicOps -> l = TyBool /\ r = TyBool
  IN R(IF ~ok THEN issue(re.s, loc, "IncompatibleBinary", <<l, b.op, r>>) ELSE re.s, ret)

binary(s, b, loc) ==
  LET operands(le, re) ==
        LET l == le.v
            r == re.v
        IN IF l = TyError \/ r = TyError
           THEN R(re.s, IF b.op \in ArithOps THEN TyInt ELSE TyBool)
           ELSE LET ret == IF b.op \in ArithOps THEN TyInt ELSE TyBool
                    ok == CASE b.op \in ArithOps -> l = TyInt /\ r = TyInt
                            [] b.op \in RelOps -> l = TyInt /\ r = TyInt
                            [] b.op \in EqOps -> assignable_to(l, r) \/ assignable_to(r, l)
                            [] b.op \in LogicOps -> l = TyBool /\ r = TyBool
                IN R(IF ~ok THEN issue(re.s, loc, "IncompatibleBinary", <<l, b.op, r>>)
                     ELSE re.s, ret)
      right(le) == operands(le, expr(le.s, b.r, loc \o <<2>>))
  IN right(expr(s, b.l, loc \o <<1>>))

unary(s, u, loc) ==
  LET operand(re) ==
        LET r == re.v
        IN IF u.op = "Neg"
           THEN R(IF r # TyInt /\ r # TyError
                  THEN issue(re.s, loc, "IncompatibleUnary", <<"Neg", r>>) ELSE re.s, TyInt)
           ELSE R(IF r # TyBool /\ r # TyError
                  THEN issue(re.s, loc, "IncompatibleUnary", <<"Not", r>>) ELSE re.s, TyBool)
  IN operand(expr(s, u.r, loc \o <<1>>))

var_sel(s, v, loc) ==
  IF v.owner # <<>>
  THEN LET oe == expr([s EXCEPT !.cur_used = TRUE], v.owner[1], loc \o <<1>>)
           o_t == oe.v
       IN IF o_t.arr = 0 /\ o_t.kind = "object"
          THEN LET found == class_lookup(o_t.ref, v.name)
               IN IF found # <<>>
                  THEN LET symbol == found[1]
                       IN IF symbol.sym = "Var"
                          THEN LET s1 == [oe.s EXCEPT !.vars = Append(@, [loc |-> loc, var |-> symbol.name])]
                               IN R(IF ~extends(s1.cur_class[1], o_t.ref)
                                    THEN issue(s1, loc, "PrivateFieldAccess", <<v.name, o_t>>)
                                    ELSE s1, symbol.ty)
                          ELSE R(oe.s, symbol_ty(symbol))
                  ELSE R(issue(oe.s, loc, "NoSuchField", <<v.name, o_t>>), TyError)
          ELSE IF o_t = TyError THEN R(oe.s, TyError)
          ELSE R(issue(oe.s, loc, "BadFieldAccess", <<v.name, o_t>>), TyError)
  ELSE LET at == IF s.cur_var_def # <<>> THEN s.cur_var_def[1] ELSE loc
           found == lookup_before(s, v.name, at)
           ret == IF found # <<>>
                  THEN LET symbol == found[1]
                       IN CASE symbol.sym = "Var" ->
                                 LET s1 == [s EXCEPT !.vars = Append(@, [loc |-> loc, var |-> symbol.name])]
                                 IN R(IF symbol.owner_is_class /\ s1.cur_func[1].static_
                                      THEN issue(s1, loc, "RefInStatic", <<v.name, s1.cur_func[1].name>>)
                                      ELSE s1, symbol.ty)
                            [] symbol.sym = "Func" -> R(s, mk_func(symbol.f.name))
                            [] symbol.sym = "This" -> R(s, mk_obj(symbol.class))
                            [] symbol.sym = "Class" ->
                                 IF ~s.cur_used
                                 THEN R(issue(s, loc, "UndeclaredVar", <<v.name>>), TyError)
                                 ELSE R(s, mk_class(symbol.class))
                  ELSE R(issue(s, loc, "UndeclaredVar", <<v.name>>), TyError)
       IN R([ret.s EXCEPT !.cur_used = FALSE], ret.v)

\* check_args that visits the arguments without comparing them to the parameters
check_args_unchecked(s, c, f, loc, idx) ==
  IF idx > Len(c.arg) THEN s
  ELSE LET ae == expr(s, c.arg[idx], loc \o <<1 + idx>>)
       IN then(ae, check_args(ae.s, c, f, loc, idx + 1))

\* the loop over the arguments of check_call, from argument idx on
check_args(s, c, f, loc, idx) ==
  IF idx > Len(c.arg) THEN s
  ELSE LET ae == expr(s, c.arg[idx], loc \o <<1 + idx>>)
           arg == ae.v
           s1 == IF ~assignable_to(arg, f.param[idx].ty)
                 THEN issue(ae.s, loc \o <<1 + idx>>, "ArgMismatch", <<idx, arg, f.param[idx].ty>>)
                 ELSE ae.s
       IN then(s1, check_args(s1, c, f, loc, idx + 1))

check_call(s, c, owner, found, loc) ==
  IF found # <<>>
  THEN LET symbol == found[1]
       IN IF symbol.sym = "Func"
          THEN LET f == symbol.f
                   s1 == [s EXCEPT !.funcs = Append(@, [loc |-> loc, func |-> f.name])]
                   s2 == IF c.owner # <<>>
                         THEN (IF is_class(owner) /\ ~f.static_
                               THEN issue(s1, loc, "BadFieldAccess", <<c.name, owner>>) ELSE s1)
                         ELSE (IF s1.cur_func[1].static_ /\ ~f.static_
                               THEN issue(s1, loc, "RefInStatic", <<f.name, s1.cur_func[1].name>>) ELSE s1)
                   s3 == IF Len(f.param) # Len(c.arg)
                         THEN issue(s2, loc, "ArgcMismatch", <<c.name, Len(f.param), Len(c.arg)>>)
                         ELSE check_args(s2, c, f, loc, 1)
               IN R(s3, ret_ty(f))
          ELSE R(issue(s, loc, "NotFunc", <<c.name, owner>>), TyError)
  ELSE R(issue(s, loc, "NoSuchField", <<c.name, owner>>), TyError)

call(s, c, loc) ==
  IF c.owner # <<>>
  THEN LET oe == expr([s EXCEPT !.cur_used = TRUE], c.owner[1], loc \o <<1>>)
           o_t == oe.v
       IN IF o_t = TyError THEN R(oe.s, TyError)
          ELSE IF c.name = LENGTH /\ is_arr(o_t)
          THEN R(IF c.arg # <<>>
                 THEN issue(oe.s, loc, "LengthWithArgument", <<Len(c.arg)>>) ELSE oe.s, TyInt)
          ELSE IF o_t.kind \in {"class", "object"}
          THEN check_call(oe.s, c, o_t, class_lookup(o_t.ref, c.name), loc)
          ELSE R(issue(oe.s, loc, "BadFieldAccess", <<c.name, o_t>>), TyError)
  ELSE check_call(s, c, mk_obj(s.cur_class[1]), class_lookup(s.cur_class[1], c.name), loc)

\* the class named by an instance test or a cast
class_target(s, c, loc, ok) ==
  IF lookup_class(c.name) # <<>>
  THEN R([s EXCEPT !.classes = Append(@, [loc |-> loc, class |-> c.name])], ok)
  ELSE R(issue(s, loc, "NoSuchClass", <<c.name>>), TyError)

expr(s, e, loc) ==
  LET set_ty(r) == R([r.s EXCEPT !.tys = Append(@, [loc |-> loc, ty |-> r.v])], r.v)
  IN set_ty(
    CASE e.kind = "VarSel" -> var_sel(s, e, loc)
      [] e.kind = "IndexSel" ->
           LET ae == expr(s, e.arr, loc \o <<1>>)
               ie == expr(ae.s, e.idx, loc \o <<2>>)
               s1 == IF ie.v # TyInt /\ ie.v # TyError
                     THEN issue(ie.s, loc, "IndexNotInt", <<>>) ELSE ie.s
           IN IF ae.v.arr > 0 THEN R(s1, [ae.v EXCEPT !.arr = @ - 1])
              ELSE IF ae.v = TyError THEN R(s1, TyError)
              ELSE R(issue(s1, loc \o <<1>>, "IndexNotArray", <<>>), TyError)
      [] e.kind \in {"IntLit", "ReadInt"} -> R(s, TyInt)
      [] e.kind = "BoolLit" -> R(s, TyBool)
      [] e.kind \in {"StringLit", "ReadLine"} -> R(s, TyString)
      [] e.kind = "NullLit" -> R(s, TyNull)
      [] e.kind = "Call" -> call(s, e, loc)
      [] e.kind = "Unary" -> unary(s, e, loc)
      [] e.kind = "Binary" -> binary(s, e, loc)
      [] e.kind = "This" ->
           IF ~s.cur_func[1].static_ THEN R(s, mk_obj(s.cur_class[1]))
           ELSE R(issue(s, loc, "ThisInStatic", <<>>), TyError)
      [] e.kind = "NewClass" ->
           IF lookup_class(e.name) # <<>>
           THEN R([s EXCEPT !.classes = Append(@, [loc |-> loc, class |-> e.name])], mk_obj(e.name))
           ELSE R(issue(s, loc, "NoSuchClass", <<e.name>>), TyError)
      [] e.kind = "NewArray" ->
           LET le == expr(s, e.len, loc \o <<1>>)
               s1 == IF le.v # TyInt /\ le.v # TyError
                     THEN issue(le.s, loc \o <<1>>, "NewArrayNotInt", <<>>) ELSE le.s
           IN syn_ty(s1, e.elem, loc)
      [] e.kind = "ClassTest" ->
           LET se == expr(s, e.expr, loc \o <<1>>)
               s1 == IF se.v # TyError /\ ~is_object(se.v)
                     THEN issue(se.s, loc, "NotObject", <<se.v>>) ELSE se.s
           IN class_target(s1, e, loc, TyBool)
      [] e.kind = "ClassCast" ->
           LET se == expr(s, e.expr, loc \o <<1>>)
               s1 == IF se.v # TyError /\ ~is_object(se.v)
                     THEN issue(se.s, loc, "NotObject", <<se.v>>) ELSE se.s
           IN class_target(s1, e, loc, mk_obj(e.name)))

check_bool(s, e, loc) ==
  LET test(ee) ==
        IF ee.v # TyBool /\ ee.v # TyError THEN issue(ee.s, loc, "TestNotBool", <<>>) ELSE ee.s
  IN test(expr(s, e, loc))

\* -------------------------------------------------------- statement checker
RECURSIVE stmt(_, _, _)
RECURSIVE block(_, _, _)
RECURSIVE block_loop(_, _, _, _, _, _, _)
RECURSIVE for_body(_, _, _, _)
RECURSIVE print_args(_, _, _, _)
RECURSIVE stmt_if(_, _, _)
RECURSIVE stmt_while(_, _, _)
RECURSIVE stmt_for(_, _, _)

\* block's loop without `issued = true`
block_loop_reissue(s, b, loc, i, ret, ended, issued) ==
  IF i > Len(b.stmt) THEN R(s, ret)
  ELSE LET st == b.stmt[i]
           s1 == IF ended /\ ~issued
                 THEN issue(s, loc \o <<i>>, "UnreachableCode", <<>>) ELSE s
           te == stmt(s1, st, loc \o <<i>>)
           ret1 == IF ~ended THEN te.v ELSE ret
           ended1 == ret1 \/ st.kind = "Break"
       IN then(te, block_loop(te.s, b, loc, i + 1, ret1, ended1, issued))

\* one turn of the loop of block, at statement i, and the turns after it
block_loop(s, b, loc, i, ret, ended, issued) ==
  IF i > Len(b.stmt) THEN R(s, ret)
  ELSE LET st == b.stmt[i]
           s1 == IF ended /\ ~issued
                 THEN issue(s, loc \o <<i>>, "UnreachableCode", <<>>) ELSE s
           issued1 == issued \/ ended
           turn(te) ==
             LET ret1 == IF ~ended THEN te.v ELSE ret
                 ended1 == ret1 \/ st.kind = "Break"
             IN then(te, block_loop(te.s, b, loc, i + 1, ret1, ended1, issued1))
       IN turn(stmt(s1, st, loc \o <<i>>))

block(s, b, loc) ==
  LET scoped(r) == R(note(close(r.s), "block", loc, s.loop_cnt, r.v), r.v)
  IN scoped(block_loop(open(s, LocalScope(local_vars(b.stmt, loc, 1))),
                       b, loc, 1, FALSE, FALSE, FALSE))

stmt_assign(s, a, loc) ==
  LET sides(le, re) ==
        LET l == le.v
            r == re.v
        IN R(IF is_func(l) \/ ~assignable_to(r, l)
             THEN issue(re.s, loc, "IncompatibleBinary", <<l, "=", r>>) ELSE re.s, FALSE)
      right(le) == sides(le, expr(le.s, a.src, loc \o <<2>>))
  IN right(expr(s, a.dst, loc \o <<1>>))

stmt_local_var_def(s, v, loc) ==
  LET s0 == [s EXCEPT !.cur_var_def = <<loc>>]
      initial(re) ==
        LET l == v.ty
            r == re.v
        IN IF ~assignable_to(r, l)
           THEN issue(re.s, loc \o <<1>>, "IncompatibleBinary", <<l, "=", r>>) ELSE re.s
      leave(s1) == R([s1 EXCEPT !.cur_var_def = <<>>], FALSE)
  IN leave(IF v.init # <<>> THEN initial(expr(s0, v.init[1], loc \o <<2>>)) ELSE s0)

stmt_if(s, i, loc) ==
  LET both(s1, s2) == R(s2.s, s1.v /\ s2.v)
      branches(s1) ==
        then(s1, both(s1, IF i.on_false # <<>>
                          THEN block(s1.s, i.on_false[1], loc \o <<3>>)
                          ELSE R(s1.s, FALSE)))
      tested(s0) == then(s0, branches(block(s0, i.on_true, loc \o <<2>>)))
  IN tested(check_bool(s, i.cond, loc \o <<1>>))

stmt_while(s, w, loc) ==
  LET leave(s2) == R([s2.s EXCEPT !.loop_cnt = @ - 1], FALSE)
      tested(s0) ==
        then(s0, leave(block([s0 EXCEPT !.loop_cnt = @ + 1], w.body, loc \o <<2>>)))
  IN tested(check_bool(s, w.cond, loc \o <<1>>))

\* for st in &f.body.stmt { s.stmt(st); }
for_body(s, ss, loc, i) ==
  IF i > Len(ss) THEN s
  ELSE LET turn(te) == then(te, for_body(te.s, ss, loc, i + 1))
       IN turn(stmt(s, ss[i], loc \o <<i>>))

stmt_for(s, f, loc) ==
  LET vs == (IF f.init.kind = "LocalVarDef"
             THEN <<SymVar(f.init.name, f.init.ty, loc \o <<1>>, FALSE)>> ELSE <<>>)
            \o local_vars(f.body.stmt, loc \o <<4>>, 1)
      updated(s3) ==
        then(s3, R(close(for_body(s3.s, f.body.stmt, loc \o <<4>>, 1)), FALSE))
      tested(s2) == then(s2, updated(stmt(s2, f.update, loc \o <<3>>)))
      started(s1) == then(s1, tested(check_bool(s1.s, f.cond, loc \o <<2>>)))
  IN started(stmt(open(s, LocalScope(vs)), f.init, loc \o <<1>>))

\* a return that counts as returning only when its value fits
stmt_return_if_fits(s, r, loc) ==
  LET expect == ret_ty(s.cur_func[1])
  IN IF r # <<>>
     THEN LET ae == expr(s, r[1], loc \o <<1>>)
              actual == ae.v
          IN R(IF ~assignable_to(actual, expect)
               THEN issue(ae.s, loc, "ReturnMismatch", <<actual, expect>>) ELSE ae.s,
               assignable_to(actual, expect))
     ELSE R(IF expect # TyVoid
            THEN issue(s, loc, "ReturnMismatch", <<TyVoid, expect>>) ELSE s, FALSE)

stmt_return(s, r, loc) ==
  LET expect == ret_ty(s.cur_func[1])
      valued(ae) ==
        LET actual == ae.v
        IN R(IF ~assignable_to(actual, expect)
             THEN issue(ae.s, loc, "ReturnMismatch", <<actual, expect>>) ELSE ae.s, TRUE)
  IN IF r # <<>>
     THEN valued(expr(s, r[1], loc \o <<1>>))
     ELSE R(IF expect # TyVoid
            THEN issue(s, loc, "ReturnMismatch", <<TyVoid, expect>>) ELSE s, FALSE)

\* for (i, e) in p.iter().enumerate()
print_args(s, es, loc, i) ==
  IF i > Len(es) THEN s
  ELSE LET printed(ee) ==
             LET ty == ee.v
                 s1 == IF ty # TyError /\ ty # TyBool /\ ty # TyInt /\ ty # TyString
                       THEN issue(ee.s, loc \o <<i>>, "BadPrintArg", <<i, ty>>) ELSE ee.s
             IN then(s1, print_args(s1, es, loc, i + 1))
       IN printed(expr(s, es[i], loc \o <<i>>))

stmt_break(s, loc) ==
  R(IF s.loop_cnt = 0 THEN issue(s, loc, "BreakOutOfLoop", <<>>) ELSE s, FALSE)

stmt(s, st, loc) ==
  LET done(r) == R(note(r.s, "stmt", loc, s.loop_cnt, r.v), r.v)
  IN done(
    CASE st.kind = "Assign" -> stmt_assign(s, st, loc)
      [] st.kind = "LocalVarDef" -> stmt_local_var_def(s, st, loc)
      [] st.kind = "ExprEval" -> R(expr(s, st.e, loc \o <<1>>).s, FALSE)
      [] st.kind = "Skip" -> R(s, FALSE)
      [] st.kind = "If" -> stmt_if(s, st, loc)
      [] st.kind = "While" -> stmt_while(s, st, loc)
      [] st.kind = "For" -> stmt_for(s, st, loc)
      [] st.kind = "Return" -> stmt_return(s, st.r, loc)
      [] st.kind = "Print" -> R(print_args(s, st.p, loc, 1), FALSE)
      [] st.kind = "Break" -> stmt_break(s, loc)
      [] st.kind = "Block" -> block(s, st.b, loc \o <<1>>))

\* func_def without the test for a void return type
func_def_any_type(s, f, loc) ==
  LET s0 == [s EXCEPT !.cur_func = <<f>>]
      t == block(open(s0, ParamScope(f, s0.cur_class[1])), f.body, loc)
      s1 == close(t.s)
  IN IF ~t.v THEN issue(s1, loc, "NoReturn", <<>>) ELSE s1

\* the body of the loop of class_def, for a member that is a method
func_def(s, f, loc) ==
  LET s0 == [s EXCEPT !.cur_func = <<f>>]
      body(t) ==
        LET s1 == close(t.s)
        IN IF ~t.v /\ ret_ty(f) # TyVoid THEN issue(s1, loc, "NoReturn", <<>>) ELSE s1
  IN body(block(open(s0, ParamScope(f, s0.cur_class[1])), f.body, loc))

\* ------------------------------------------------------------ the pass
NewTypeCk ==
  [errors |-> <<>>, scopes |-> <<>>, loop_cnt |-> 0, cur_used |-> FALSE,
   cur_func |-> <<>>, cur_class |-> <<>>, cur_var_def |-> <<>>,
   tys |-> <<>>, vars |-> <<>>, funcs |-> <<>>, classes |-> <<>>, calls |-> <<>>]

Init ==
  /\ p = [class |-> <<>>]
  /\ pc = "start"
  /\ ci = 0
  /\ fi = 0
  /\ tc = NewTypeCk

program(P) ==
  /\ pc = "start"
  /\ \E q \in P : p' = q
  /\ tc' = open(tc, GlobalScope)
  /\ ci' = 1
  /\ pc' = "class"
  /\ UNCHANGED fi

class_def ==
  /\ pc = "class"
  /\ ci <= Len(p.class)
  /\ tc' = open([tc EXCEPT !.cur_class = <<p.class[ci].name>>], ClassScope(p.class[ci].name))
  /\ fi' = 1
  /\ pc' = "field"
  /\ UNCHANGED <<p, ci>>

class_def_func ==
  /\ pc = "field"
  /\ fi <= Len(p.class[ci].field)
  /\ p.class[ci].field[fi].kind = "FuncDef"
  /\ tc' = func_def(tc, p.class[ci].field[fi], <<ci, fi>>)
  /\ fi' = fi + 1
  /\ UNCHANGED <<p, pc, ci>>

class_def_var ==
  /\ pc = "field"
  /\ fi <= Len(p.class[ci].field)
  /\ p.class[ci].field[fi].kind # "FuncDef"
  /\ fi' = fi + 1
  /\ UNCHANGED <<p, pc, ci, tc>>

class_def_end ==
  /\ pc = "field"
  /\ fi > Len(p.class[ci].field)
  /\ tc' = close(tc)
  /\ ci' = ci + 1
  /\ pc' = "class"
  /\ UNCHANGED <<p, fi>>

program_end ==
  /\ pc = "class"
  /\ ci > Len(p.class)
  /\ tc' = close(tc)
  /\ pc' = "done"
  /\ UNCHANGED <<p, ci, fi>>

\* ------------------------------------------------------------- the inputs
\* deepest nesting of generated compound statements
MaxDepth == 3
\* longest statement list of a generated inner block
MaxInner == 2

\* all sequences over S of length at most n
RECURSIVE SeqsUpTo(_, _)
SeqsUpTo(S, n) ==
  IF n = 0 THEN {<<>>}
  ELSE LET shorter == SeqsUpTo(S, n - 1)
       IN shorter \cup {Append(q, x) : q \in {r \in shorter : Len(r) = n - 1}, x \in S}

TyA == mk_obj("A")
TyB == mk_obj("B")

\* class A { int x; int get(int k) { return 1; } static class A make() { return new A(); } }
ClassA ==
  ClassDef("A", <<>>,
           <<VarDef("x", TyInt),
             FuncDef("get", FALSE, TyInt, <<Param("k", TyInt)>>, Block(<<Return(<<IntLit>>)>>)),
             FuncDef("make", TRUE, TyA, <<>>, Block(<<Return(<<NewClass("A")>>)>>))>>)
\* class B extends A { }
ClassB == ClassDef("B", <<"A">>, <<>>)
\* the parameters of the method under check
RunParams ==
  <<Param("i", TyInt), Param("o", TyA), Param("ob", TyB),
    Param("arr", mk_arr(TyInt)), Param("objs", mk_arr(TyA))>>
\* class Main { int fld; static void f2(int n, class A a) { } <rt> run(...) <body> }
ClassMain(st, rt, body) ==
  ClassDef("Main", <<>>,
           <<VarDef("fld", TyInt),
             FuncDef("f2", TRUE, TyVoid, <<Param("n", TyInt), Param("a", TyA)>>, Block(<<>>)),
             FuncDef("run", st, rt, RunParams, body)>>)
Program(st, rt, ss) == [class |-> <<ClassA, ClassB, ClassMain(st, rt, Block(ss))>>]

\* --- statement programs
Leaves == {Skip, Break, Return(<<>>), Return(<<IntLit>>), PrintStmt(<<NullLit>>)}
Wrap(b) ==
  {If(BoolLit, b, <<>>), If(BoolLit, b, <<b>>), While(BoolLit, b),
   For(Skip, BoolLit, Skip, b), BlockStmt(b)}
RECURSIVE Nest(_)
Nest(d) ==
  IF d = 0 THEN Leaves
  ELSE LET inner == Nest(d - 1)
       IN inner \cup UNION {Wrap(Block(<<x>>)) : x \in inner}
InnerBlocks == {Block(ss) : ss \in SeqsUpTo(Leaves, MaxInner)}
OneDeep ==
  UNION {Wrap(b) : b \in InnerBlocks}
    \cup {If(BoolLit, Block(<<x>>), <<Block(<<y>>)>>) : x \in Leaves, y \in Leaves}
TopStmts ==
  {Skip, Break, Return(<<>>), Return(<<IntLit>>), PrintStmt(<<NullLit>>),
   If(BoolLit, Block(<<Return(<<IntLit>>)>>), <<Block(<<Return(<<IntLit>>)>>)>>),
   While(BoolLit, Block(<<Break>>)),
   For(Skip, BoolLit, Skip, Block(<<Break>>))}
StmtBodies ==
  SeqsUpTo(TopStmts, MaxStmts) \cup {<<x>> : x \in Nest(MaxDepth)} \cup {<<x>> : x \in OneDeep}
    \cup {<<x, Skip>> : x \in OneDeep}
StmtPrograms == {Program(FALSE, rt, ss) : rt \in {TyInt, TyVoid}, ss \in StmtBodies}

\* --- expression programs
Atoms ==
  {IntLit, BoolLit, StringLit, NullLit, Var("o"), Var("ob"), Var("arr"), Var("u")}
OpExprs ==
  {Binary(op, l, r) : op \in BinOps, l \in Atoms, r \in Atoms}
    \cup {Unary(op, r) : op \in UnOps, r \in Atoms}
    \cup {Binary(op, Binary("Add", IntLit, StringLit), r) : op \in {"Add", "And"}, r \in {IntLit, BoolLit}}
    \cup {Unary(op, Unary("Not", IntLit)) : op \in UnOps}
ArgAtoms == {IntLit, BoolLit, NullLit, Var("ob"), Var("u")}
ArgLists == SeqsUpTo(ArgAtoms, MaxArgs)
CallExprs ==
  UNION {{Call("f2", as), Call("nope", as), Call("fld", as), Call("run", as),
          CallOn(Var("o"), "get", as), CallOn(Var("A"), "make", as), CallOn(Var("A"), "get", as),
          CallOn(Var("u"), "get", as), CallOn(Var("arr"), LENGTH, as), CallOn(Var("objs"), LENGTH, as),
          CallOn(Var("objs"), "get", as), CallOn(Var("arr"), "get", as), CallOn(IntLit, "get", as),
          CallOn(NullLit, "get", as), CallOn(Var("i"), LENGTH, as), CallOn(Var("o"), LENGTH, as),
          CallOn(Var("run"), "get", as), CallOn(Call("f2", <<IntLit, NullLit>>), "get", as),
          CallOn(IndexSel(Var("objs"), IntLit), "get", as)} : as \in ArgLists}
Owned ==
  {Var("A"), IntLit, Sel(This, "fld"), Sel(Var("o"), "x"), Sel(Var("A"), "x"), Sel(Var("ob"), "nope"),
   Sel(Var("o"), "get"), Sel(Var("u"), "x"), CallOn(Var("A"), "make", <<>>),
   Sel(CallOn(Var("A"), "make", <<>>), "x"), CallOn(IndexSel(Var("objs"), IntLit), "get", <<IntLit>>),
   CallOn(This, "run", <<>>), Sel(IndexSel(Var("objs"), IntLit), "x")}
MiscExprs ==
  {ReadInt, ReadLine, This, Var("i"), Var("run"), Var("fld"), Var("this"),
   IndexSel(Var("arr"), IntLit), IndexSel(Var("arr"), BoolLit), IndexSel(IntLit, IntLit),
   IndexSel(Var("u"), IntLit), NewClass("A"), NewClass("Nope"),
   NewArray(TyInt, IntLit), NewArray(TyA, BoolLit), NewArray(mk_obj("Nope"), IntLit),
   ClassTest(Var("o"), "B"), ClassTest(IntLit, "B"), ClassTest(Var("o"), "Nope"),
   ClassCast(Var("o"), "B"), ClassCast(IntLit, "Nope"), ClassCast(Var("u"), "A")}
MiscBodies ==
  {<<ExprEval(e)>> : e \in MiscExprs \cup Owned}
    \cup {<<Assign(Var("i"), e)>> : e \in Atoms}
    \cup {<<Assign(Var("run"), Var("run"))>>, <<Assign(Sel(This, "fld"), Var("A"))>>}
    \cup {<<LocalVarDef("x", TyInt, <<e>>), ExprEval(Var("x"))>> : e \in {IntLit, BoolLit, Var("x"), Var("i")}}
    \cup {<<LocalVarDef("i", TyBool, <<Var("i")>>)>>, <<LocalVarDef("x", TyInt, <<>>)>>,
          <<ExprEval(Var("x")), LocalVarDef("x", TyInt, <<>>)>>,
          <<For(LocalVarDef("k", TyInt, <<IntLit>>), Binary("Lt", Var("k"), IntLit),
                Assign(Var("k"), IntLit), Block(<<PrintStmt(<<Var("k"), NullLit, StringLit>>)>>))>>,
          <<While(IntLit, Block(<<>>))>>, <<If(Var("A"), Block(<<>>), <<>>)>>,
          <<Return(<<BoolLit>>)>>, <<Return(<<Var("u")>>)>>}
ExprBodies ==
  {<<ExprEval(e)>> : e \in OpExprs \cup CallExprs}
    \cup {<<ExprEval(a), ExprEval(b)>> : a \in Owned, b \in Owned}
    \cup {<<ExprEval(Binary("Eq", a, b))>> : a \in Owned, b \in Owned}
ExprPrograms ==
  {Program(FALSE, TyVoid, ss) : ss \in ExprBodies \cup MiscBodies}
    \cup {Program(TRUE, TyInt, ss) : ss \in MiscBodies}

Programs == StmtPrograms \cup ExprPrograms

NextOn(P) ==
  \/ program(P)
  \/ class_def
  \/ class_def_func
  \/ class_def_var
  \/ class_def_end
  \/ program_end

Next == NextOn(Programs)
Spec == Init /\ [][Next]_vars
SpecStmt == Init /\ [][NextOn(StmtPrograms)]_vars
SpecExpr == Init /\ [][NextOn(ExprPrograms)]_vars

\* ------------------------------------------------- reading the pass's output
ExprKinds ==
  {"VarSel", "IndexSel", "IntLit", "ReadInt", "BoolLit", "StringLit", "ReadLine", "NullLit",
   "Call", "Unary", "Binary", "This", "NewClass", "NewArray", "ClassTest", "ClassCast"}
IsBlock(n) == "stmt" \in DOMAIN n
IsExpr(n) == ~IsBlock(n) /\ n.kind \in ExprKinds

\* the child numbers of a node, as the pass numbers them in locations
kids(n) ==
  IF IsBlock(n) THEN 1..Len(n.stmt)
  ELSE CASE n.kind \in {"Assign", "IndexSel", "Binary", "While"} -> {1, 2}
         [] n.kind = "LocalVarDef" -> IF n.init # <<>> THEN {2} ELSE {}
         [] n.kind \in {"ExprEval", "Unary", "NewArray", "ClassTest", "ClassCast", "Block"} -> {1}
         [] n.kind = "If" -> IF n.on_false # <<>> THEN {1, 2, 3} ELSE {1, 2}
         [] n.kind = "For" -> {1, 2, 3, 4}
         [] n.kind = "Return" -> IF n.r # <<>> THEN {1} ELSE {}
         [] n.kind = "Print" -> 1..Len(n.p)
         [] n.kind = "VarSel" -> IF n.owner # <<>> THEN {1} ELSE {}
         [] n.kind = "Call" ->
              (IF n.owner # <<>> THEN {1} ELSE {}) \cup {1 + k : k \in 1..Len(n.arg)}
         [] OTHER -> {}

child(n, k) ==
  IF IsBlock(n) THEN n.stmt[k]
  ELSE CASE n.kind = "Assign" -> IF k = 1 THEN n.dst ELSE n.src
         [] n.kind = "LocalVarDef" -> n.init[1]
         [] n.kind = "ExprEval" -> n.e
         [] n.kind = "If" -> IF k = 1 THEN n.cond ELSE IF k = 2 THEN n.on_true ELSE n.on_false[1]
         [] n.kind = "While" -> IF k = 1 THEN n.cond ELSE n.body
         [] n.kind = "For" ->
              IF k = 1 THEN n.init ELSE IF k = 2 THEN n.cond ELSE IF k = 3 THEN n.update ELSE n.body
         [] n.kind = "Return" -> n.r[1]
         [] n.kind = "Print" -> n.p[k]
         [] n.kind = "Block" -> n.b
         [] n.kind = "VarSel" -> n.owner[1]
         [] n.kind = "IndexSel" -> IF k = 1 THEN n.arr ELSE n.idx
         [] n.kind = "Call" -> IF k = 1 THEN n.owner[1] ELSE n.arg[k - 1]
         [] n.kind = "Unary" -> n.r
         [] n.kind = "Binary" -> IF k = 1 THEN n.l ELSE n.r
         [] n.kind = "NewArray" -> n.len
         [] n.kind \in {"ClassTest", "ClassCast"} -> n.expr

RECURSIVE Descend(_, _)
Descend(n, path) == IF path = <<>> THEN n ELSE Descend(child(n, Head(path)), Tail(path))
\* the node at a location: <<class, member>> is the body of that method
NodeAt(loc) == Descend(p.class[loc[1]].field[loc[2]].body, Tail(Tail(loc)))
Parent(loc) == SubSeq(loc, 1, Len(loc) - 1)
Last(loc) == loc[Len(loc)]

RECURSIVE ExprLocs(_, _)
ExprLocs(n, loc) ==
  (IF IsExpr(n) THEN {loc} ELSE {})
    \cup UNION {ExprLocs(child(n, k), loc \o <<k>>) : k \in kids(n)}

\* the methods class_def has finished with
Checked ==
  {m \in UNION {{<<c, f>> : f \in 1..Len(p.class[c].field)} : c \in 1..Len(p.class)} :
     /\ p.class[m[1]].field[m[2]].kind = "FuncDef"
     /\ (m[1] < ci \/ (m[1] = ci /\ pc = "field" /\ m[2] < fi))}

Errs(loc, kind) ==
  Cardinality({i \in 1..Len(tc.errors) : tc.errors[i].loc = loc /\ tc.errors[i].kind = kind})
StmtCalls == {i \in 1..Len(tc.calls) : tc.calls[i].fn = "stmt"}
BlockCalls == {i \in 1..Len(tc.calls) : tc.calls[i].fn = "block"}
Visited(fn, loc) == {i \in 1..Len(tc.calls) : tc.calls[i].fn = fn /\ tc.calls[i].loc = loc}
\* what the call of stmt (of block) at loc returned
StmtRet(loc) == tc.calls[CHOOSE i \in Visited("stmt", loc) : TRUE].ret
BlockRet(loc) == tc.calls[CHOOSE i \in Visited("block", loc) : TRUE].ret
TyVisits(loc) == {i \in 1..Len(tc.tys) : tc.tys[i].loc = loc}
TyAt(loc) == tc.tys[CHOOSE i \in TyVisits(loc) : TRUE].ty
Min(S) == CHOOSE i \in S : \A j \in S : i <= j

\* the statements of the block at loc that definitely return or are a break
Decisive(loc) ==
  {i \in 1..Len(NodeAt(loc).stmt) : StmtRet(loc \o <<i>>) \/ NodeAt(loc).stmt[i].kind = "Break"}
Unreachables(loc) ==
  {i \in 1..Len(tc.errors) :
     /\ tc.errors[i].kind = "UnreachableCode"
     /\ \E j \in 1..Len(NodeAt(loc).stmt) : tc.errors[i].loc = loc \o <<j>>}

\* ------------------------------------------------------------------ claims

\* C1: the value block returns is that of the first statement of the block
\* that definitely returns or is a break (true if that statement returns,
\* false if it is a break), and false when the block has no such statement;
\* the statements after it do not change the result.
C1_BlockResultIsFirstDecisive ==
  \A i \in BlockCalls :
    LET loc == tc.calls[i].loc
    IN tc.calls[i].ret =
         (Decisive(loc) # {} /\ StmtRet(loc \o <<Min(Decisive(loc))>>))

LoopDepth(loc) ==
  Cardinality({k \in 2..(Len(loc) - 1) :
                 LET n == NodeAt(SubSeq(loc, 1, k))
                 IN /\ ~IsBlock(n)
                    /\ \/ n.kind = "While" /\ loc[k + 1] = 2
                       \/ n.kind = "For" /\ loc[k + 1] = 4})

\* C3: a break issues break-outside-loop exactly when no body of a while or
\* of a for statement of the method encloses it, and the loop-nesting depth
\* is back to its value after each loop statement.
C3_BreakIssuesIffOutsideLoops ==
  \A i \in StmtCalls :
    LET loc == tc.calls[i].loc
        st == NodeAt(loc)
    IN /\ st.kind = "Break" =>
            Errs(loc, "BreakOutOfLoop") = (IF LoopDepth(loc) = 0 THEN 1 ELSE 0)
       /\ st.kind \in {"While", "For"} => tc.calls[i].loop_after = tc.calls[i].loop_cnt

\* C7: one scan of a block issues at most one unreachable-code diagnostic; it
\* issues one iff a statement follows the first statement that definitely
\* returns or is a break, at the statement right after that one; and every
\* statement of the block is checked, the later ones too.
C7_OneUnreachablePerBlock ==
  \A i \in BlockCalls :
    LET loc == tc.calls[i].loc
        n == Len(NodeAt(loc).stmt)
        D == Decisive(loc)
        U == Unreachables(loc)
    IN /\ Cardinality(U) <= 1
       /\ U # {} <=> (D # {} /\ Min(D) < n)
       /\ \A u \in U : tc.errors[u].loc = loc \o <<Min(D) + 1>>
       /\ \A j \in 1..n : Cardinality(Visited("stmt", loc \o <<j>>)) = 1

\* C7 witness: a block of three statements whose first returns; the second is
\* flagged, the third is not, and the third's own diagnostic is issued
C7_Witness ==
  \E i \in BlockCalls :
    LET loc == tc.calls[i].loc
    IN /\ Len(NodeAt(loc).stmt) = 3
       /\ 1 \in Decisive(loc)
       /\ Errs(loc \o <<2>>, "UnreachableCode") = 1
       /\ Errs(loc \o <<3>>, "UnreachableCode") = 0
       /\ Errs(loc \o <<3, 1>>, "BadPrintArg") = 1

ClassNames == {p.class[c].name : c \in 1..Len(p.class)}
\* the expression at loc is the owner of a member select or of a qualified call
IsDirectOwner(loc) ==
  LET par == NodeAt(Parent(loc))
  IN /\ IsExpr(par)
     /\ par.kind \in {"VarSel", "Call"}
     /\ par.owner # <<>>
     /\ Last(loc) = 1

\* C4: a bare class name that is not the owner of a member select or of a
\* qualified call issues undeclared-identifier and types as Error, whatever
\* was checked before it; as such an owner it types as Class.
C4_BareClassNameIsUndeclared ==
  \A i \in 1..Len(tc.tys) :
    LET loc == tc.tys[i].loc
        e == NodeAt(loc)
    IN e.kind = "VarSel" /\ e.owner = <<>> /\ e.name \in ClassNames =>
         IF IsDirectOwner(loc)
         THEN tc.tys[i].ty = mk_class(e.name) /\ Errs(loc, "UndeclaredVar") = 0
         ELSE tc.tys[i].ty = TyError /\ Errs(loc, "UndeclaredVar") = 1

FuncsAt(loc) == {i \in 1..Len(tc.funcs) : tc.funcs[i].loc = loc}

\* C5: a qualified call other than the array length looks its callee up only
\* in the class of a Class or non-array Object owner; an array, primitive,
\* null, void or function owner issues bad-member-access, resolves nothing
\* and yields Error; length on an array yields int and issues
\* length-call-with-arguments iff arguments are given.
C5_QualifiedCallOwner ==
  \A i \in 1..Len(tc.tys) :
    LET loc == tc.tys[i].loc
        e == NodeAt(loc)
        o_t == TyAt(loc \o <<1>>)
    IN e.kind = "Call" /\ e.owner # <<>> /\ o_t # TyError =>
         IF e.name = LENGTH /\ is_arr(o_t)
         THEN /\ tc.tys[i].ty = TyInt
              /\ Errs(loc, "LengthWithArgument") = (IF Len(e.arg) > 0 THEN 1 ELSE 0)
              /\ FuncsAt(loc) = {}
         ELSE IF is_class(o_t) \/ is_object(o_t)
         THEN LET found == class_lookup(o_t.ref, e.name)
              IN IF found # <<>> /\ found[1].sym = "Func"
                 THEN /\ Cardinality(FuncsAt(loc)) = 1
                      /\ \A k \in FuncsAt(loc) : tc.funcs[k].func = found[1].f.name
                 ELSE FuncsAt(loc) = {}
         ELSE /\ Errs(loc, "BadFieldAccess") = 1
              /\ FuncsAt(loc) = {}
              /\ tc.tys[i].ty = TyError

\* C6: once program has finished, every expression of every method body has
\* its type set, by exactly one visit of expr.
C6_EveryExprAnnotatedOnce ==
  pc = "done" =>
    \A m \in Checked :
      \A loc \in ExprLocs(p.class[m[1]].field[m[2]].body, m) :
        Cardinality(TyVisits(loc)) = 1

FixedTy(op) == IF op \in ArithOps \cup {"Neg"} THEN TyInt ELSE TyBool
OperandRule(op, l, r) ==
  CASE op \in ArithOps \cup RelOps -> l = TyInt /\ r = TyInt
    [] op \in LogicOps -> l = TyBool /\ r = TyBool
    [] op \in EqOps -> assignable_to(l, r) \/ assignable_to(r, l)
    [] op = "Neg" -> r = TyInt
    [] op = "Not" -> r = TyBool
OperandErrs(loc) == Errs(loc, "IncompatibleBinary") + Errs(loc, "IncompatibleUnary")

\* C9: the type of a unary or binary operator node depends on the operator
\* alone; the node issues no operand-mismatch diagnostic when an operand has
\* type Error, and otherwise exactly one iff the operator's operand rule is
\* violated.
C9_OperatorTypes ==
  \A i \in 1..Len(tc.tys) :
    LET loc == tc.tys[i].loc
        e == NodeAt(loc)
    IN e.kind \in {"Unary", "Binary"} =>
         LET r == IF e.kind = "Unary" THEN TyAt(loc \o <<1>>) ELSE TyAt(loc \o <<2>>)
             l == IF e.kind = "Unary" THEN r ELSE TyAt(loc \o <<1>>)
         IN /\ tc.tys[i].ty = FixedTy(e.op)
            /\ OperandErrs(loc) =
                 (IF l = TyError \/ r = TyError THEN 0
                  ELSE IF OperandRule(e.op, l, r) THEN 0 ELSE 1)

\* C9 witness: an arithmetic node with an Error operand and a string operand
\* issued nothing and has type int
C9_Witness ==
  \E i \in 1..Len(tc.tys) :
    LET loc == tc.tys[i].loc
        e == NodeAt(loc)
    IN /\ e.kind = "Binary" /\ e.op \in ArithOps
       /\ TyAt(loc \o <<1>>) = TyError
       /\ TyAt(loc \o <<2>>) = TyString
       /\ Errs(loc \o <<1>>, "UndeclaredVar") = 1
       /\ OperandErrs(loc) = 0
       /\ tc.tys[i].ty = TyInt

\* the method of the program with the given name
FuncNamed(n) ==
  LET m == CHOOSE m \in UNION {{<<c, f>> : f \in 1..Len(p.class[c].field)} : c \in 1..Len(p.class)} :
             p.class[m[1]].field[m[2]].kind = "FuncDef" /\ p.class[m[1]].field[m[2]].name = n
  IN p.class[m[1]].field[m[2]]

\* C10: a call that resolves to a method issues exactly one
\* argument-count-mismatch and no per-argument mismatch when the counts
\* differ; when they are equal it issues a per-argument mismatch at exactly
\* the arguments not assignable to their parameter; it yields the method's
\* return type either way.
C10_CallArguments ==
  \A k \in 1..Len(tc.funcs) :
    LET loc == tc.funcs[k].loc
        c == NodeAt(loc)
        f == FuncNamed(tc.funcs[k].func)
        ArgErrs(a) ==
          {j \in 1..Len(tc.errors) :
             tc.errors[j].kind = "ArgMismatch" /\ tc.errors[j].loc = loc \o <<1 + a>>}
    IN /\ TyAt(loc) = f.ret
       /\ IF Len(c.arg) # Len(f.param)
          THEN /\ Errs(loc, "ArgcMismatch") = 1
               /\ \A a \in 1..Len(c.arg) : ArgErrs(a) = {}
          ELSE /\ Errs(loc, "ArgcMismatch") = 0
               /\ \A a \in 1..Len(c.arg) :
                    /\ Cardinality(ArgErrs(a)) =
                         (IF assignable_to(TyAt(loc \o <<1 + a>>), f.param[a].ty) THEN 0 ELSE 1)
                    /\ \A j \in ArgErrs(a) : tc.errors[j].info[1] = a

\* C10 witness: a call with as many arguments as parameters whose first
\* argument was flagged and whose second was not
C10_Witness ==
  \E k \in 1..Len(tc.funcs) :
    LET loc == tc.funcs[k].loc
    IN /\ Len(NodeAt(loc).arg) = 2
       /\ Len(FuncNamed(tc.funcs[k].func).param) = 2
       /\ Errs(loc \o <<2>>, "ArgMismatch") = 1
       /\ Errs(loc \o <<3>>, "ArgMismatch") = 0
       /\ TyAt(loc) = TyVoid

====
